---- MODULE Spec2Model ----
(***************************************************************************)
(* Model of cut_video (src/app.py): the fixed-stride segmentation loop,    *)
(* its validation prologue, the per-window invocation of the external      *)
(* encoder and the final report.  Each Gradio session that presses the cut *)
(* button is one process running cut_video; the processes share the clock  *)
(* and the file system below CLIP_VIDEO.                                   *)
(***************************************************************************)
EXTENDS Integers, Sequences, FiniteSets, TLC

(***************************************************************************)
(* Python floats are IEEE-754 binary64.  A float x >= 0 is held exactly as *)
(* the pair <<hi, lo>> with x = (hi * LimbBase + lo) * 2^-54, 0 <= lo <    *)
(* LimbBase.  Every value the model computes is a multiple of 2^-54 and    *)
(* is below 32, so the pair is exact; rounding to 53 significant bits is   *)
(* done by RoundNearestEven as the hardware does it.  A negative number    *)
(* has a negative hi limb (only ever compared, never computed with).       *)
(***************************************************************************)
LimbBase == 2^29
OneHi == 2^25

NoneValue == <<>>

Dbl(n) == <<n * OneHi, 0>>

DLess(a, b) == a[1] < b[1] \/ (a[1] = b[1] /\ a[2] < b[2])

DLeq(a, b) == ~DLess(b, a)

\* Python's min(a, b): the first argument unless the second is smaller
DMin(a, b) == IF DLess(b, a) THEN b ELSE a

\* the exact (unrounded) sum and difference of two values
ExactSum(a, b) ==
    LET lo == a[2] + b[2]
    IN  IF lo >= LimbBase THEN <<a[1] + b[1] + 1, lo - LimbBase>>
                          ELSE <<a[1] + b[1], lo>>

ExactDiff(a, b) ==
    LET lo == a[2] - b[2]
    IN  IF lo < 0 THEN <<a[1] - b[1] - 1, lo + LimbBase>>
                  ELSE <<a[1] - b[1], lo>>

\* the spacing of binary64 values in the binade of v, in units of 2^-54
UlpUnits(v) ==
    IF v[1] >= 16 * OneHi THEN 64
    ELSE IF v[1] >= 8 * OneHi THEN 32
    ELSE IF v[1] >= 4 * OneHi THEN 16
    ELSE IF v[1] >= 2 * OneHi THEN 8
    ELSE IF v[1] >= OneHi THEN 4
    ELSE IF 2 * v[1] >= OneHi THEN 2
    ELSE 1

\* round an exact value to the nearest binary64, ties to even
RoundNearestEven(v) ==
    LET u == UlpUnits(v)
        q == v[2] \div u
        r == v[2] % u
        up == (2 * r > u) \/ (2 * r = u /\ q % 2 = 1)
        lo == IF up THEN (q + 1) * u ELSE q * u
    IN  IF lo >= LimbBase THEN <<v[1] + 1, lo - LimbBase>> ELSE <<v[1], lo>>

\* float + and - (both operands >= 0, a >= b for DSub)
DAdd(a, b) == RoundNearestEven(ExactSum(a, b))

DSub(a, b) == RoundNearestEven(ExactDiff(a, b))

\* int(v) for v >= 0
DFloor(v) == v[1] \div OneHi

\* frame_count / fps for a small integer frame count and an fps that is a
\* power of two (the quotient is then exact)
DDiv(n, f) ==
    LET num == n * OneHi
        r == num % f
    IN  <<num \div f, (r * LimbBase) \div f>>


(***************************************************************************)
(* Inputs and environment                                                  *)
(***************************************************************************)
MaxFrames == 5
MaxClock == 2
TicksPerSecond == 2

Sessions == {1, 2}

CLIP_VIDEO_BASE_DIR == "CLIP_VIDEO"
ConfiguredFfmpeg == "D:\\tools\\ffmpeg-master-latest-win64-gpl\\bin\\ffmpeg.exe"

NonePath == "None"
PathValues == {NonePath, "", "video.mp4"}

\* binary64 nearest to 0.45
Dbl045 == <<15099494, 214748365>>
ClipLengths == {NoneValue, Dbl(-1), Dbl(0), Dbl045, DDiv(1, 2), Dbl(1), Dbl(3)}

FpsValues == {0, 1, 2}
ProbeOutcomes == {"closed", "raises", "ok"}

\* what subprocess.run can do once the process has been started: the process
\* exits with a status and a captured stderr, or the call raises an exception
\* that is neither CalledProcessError nor FileNotFoundError
ProcResults == {[kind |-> "exit", rc |-> 0, stderr |-> <<>>],
                [kind |-> "exit", rc |-> 0, stderr |-> <<" ", "c", "\n">>],
                [kind |-> "exit", rc |-> 1, stderr |-> <<" ", "c", "\n">>],
                [kind |-> "exception", rc |-> 0, stderr |-> <<"x">>]}

Whitespace == {" ", "\n", "\t"}

RECURSIVE LStrip(_)
LStrip(str) ==
    IF str # <<>> /\ Head(str) \in Whitespace THEN LStrip(Tail(str)) ELSE str

RECURSIVE RStrip(_)
RStrip(str) ==
    IF str # <<>> /\ str[Len(str)] \in Whitespace
    THEN RStrip(SubSeq(str, 1, Len(str) - 1)) ELSE str

\* str.strip()
Strip(str) == RStrip(LStrip(str))

\* f"{i:03d}": at least three decimal digits, zero padded
RECURSIVE Digits(_)
Digits(n) == IF n < 10 THEN <<n>> ELSE Append(Digits(n \div 10), n % 10)

Pad3(n) ==
    LET d == Digits(n)
    IN  IF Len(d) >= 3 THEN d ELSE [k \in 1..(3 - Len(d)) |-> 0] \o d

\* time.strftime("clip_%Y%m%d_%H%M%S"): the clock truncated to whole seconds
Strftime(t) == t \div TicksPerSecond

Falsy(p) == p \in {NonePath, ""}

Msg(k) == [kind |-> k]

(***************************************************************************)
(* get_video_info: None when the capture cannot be opened or any call      *)
(* raises, else the probed values (width and height play no part in        *)
(* cut_video and are left out).                                            *)
(***************************************************************************)
get_video_info(outcome, fps, frame_count) ==
    IF outcome # "ok" THEN NoneValue
    ELSE <<fps, frame_count, IF fps > 0 THEN DDiv(frame_count, fps) ELSE Dbl(0)>>

InfoDuration(info) == info[3]

(***************************************************************************)
(* The window of the loop body for index i (lines 244-251)                 *)
(***************************************************************************)
start_time(i) == Dbl(i)

actual_end_time(i, L, D) == DMin(DAdd(start_time(i), L), D)

actual_clip_duration(i, L, D) == DSub(actual_end_time(i, L, D), start_time(i))

\* line 251: the window is skipped
Skipped(i, L, D) == DLess(actual_clip_duration(i, L, D), L)

\* variant: the file name does not contain the index
output_pathFixedName(dir, i) == <<dir, Pad3(0)>>

\* lines 255-256
output_path(dir, i) == <<dir, Pad3(i)>>

VARIABLES
    FFMPEG_EXECUTABLE_PATH,    \* module constant: NonePath or a configured path
    ffmpeg_installed,          \* the executable the command resolves to exists
    clock,                     \* wall clock, in ticks
    dirs,                      \* subdirectories of CLIP_VIDEO: [name, creator]
    files,                     \* clip files on disk: [path, by]
    procLog,                   \* launches and exits of the external encoder
    pc,                        \* position of each session in cut_video
    video_path,
    clip_duration_input,
    duration,
    total_potential_clips,
    progressLog,               \* the fractions passed to progress(...)
    cut_info,
    actual_saved_clips_count,
    current_output_dir,
    ffmpeg_cmd_name,
    i,
    result                     \* the value returned (or the exception raised)

vars == <<FFMPEG_EXECUTABLE_PATH, ffmpeg_installed, clock, dirs, files, procLog, pc, video_path,
          clip_duration_input, duration, total_potential_clips, progressLog,
          cut_info, actual_saved_clips_count, current_output_dir,
          ffmpeg_cmd_name, i, result>>

Init ==
    /\ FFMPEG_EXECUTABLE_PATH \in {NonePath, ConfiguredFfmpeg}
    /\ ffmpeg_installed \in BOOLEAN
    /\ clock = 0
    /\ dirs = {}
    /\ files = {}
    /\ procLog = <<>>
    /\ pc = [s \in Sessions |-> "idle"]
    /\ video_path = [s \in Sessions |-> NonePath]
    /\ clip_duration_input = [s \in Sessions |-> NoneValue]
    /\ duration = [s \in Sessions |-> NoneValue]
    /\ total_potential_clips = [s \in Sessions |-> 0]
    /\ progressLog = [s \in Sessions |-> <<>>]
    /\ cut_info = [s \in Sessions |-> <<>>]
    /\ actual_saved_clips_count = [s \in Sessions |-> 0]
    /\ current_output_dir = [s \in Sessions |-> NoneValue]
    /\ ffmpeg_cmd_name = [s \in Sessions |-> NoneValue]
    /\ i = [s \in Sessions |-> 0]
    /\ result = [s \in Sessions |-> NoneValue]

Return(s, r) ==
    /\ pc' = [pc EXCEPT ![s] = "returned"]
    /\ result' = [result EXCEPT ![s] = r]

(***************************************************************************)
(* Lines 188-197: the call and the two checks made outside the try block.  *)
(* None <= 0 raises TypeError, which nothing catches.                      *)
(***************************************************************************)
Invoke(s, path, L) ==
    /\ pc[s] = "idle"
    /\ video_path' = [video_path EXCEPT ![s] = path]
    /\ clip_duration_input' = [clip_duration_input EXCEPT ![s] = L]
    /\ IF Falsy(path) THEN Return(s, Msg("select_file"))
       ELSE IF L = NoneValue
            THEN /\ pc' = [pc EXCEPT ![s] = "raised"]
                 /\ result' = [result EXCEPT ![s] = Msg("TypeError")]
       ELSE IF DLeq(L, Dbl(0)) THEN Return(s, Msg("bad_clip_length"))
       ELSE /\ pc' = [pc EXCEPT ![s] = "validate"]
            /\ UNCHANGED result
    /\ UNCHANGED <<FFMPEG_EXECUTABLE_PATH, ffmpeg_installed, clock, dirs, files, procLog,
                   duration, total_potential_clips, progressLog, cut_info,
                   actual_saved_clips_count, current_output_dir,
                   ffmpeg_cmd_name, i>>

(***************************************************************************)
(* Lines 199-219: file check, probe and validation of the duration.        *)
(***************************************************************************)
\* variant: the duration check written with < instead of <=
InvalidDurationStrict(D) == DLess(D, Dbl(0))

\* line 215
InvalidDuration(D) == DLeq(D, Dbl(0))

\* variant: the operands of the comparison exchanged
TooShortReversed(D, L) == DLess(L, D)

\* line 218
TooShort(D, L) == DLess(D, L)

\* variant: the second number of the message is the duration of the video
TooShortMessageWithActual(L, D) == [kind |-> "too_short", shown |-> <<L, D>>]

\* line 219: the text interpolates clip_duration_input twice (str() of a
\* float is the shortest text that reads back as the same float, so the value
\* stands for its text)
TooShortMessage(L, D) == [kind |-> "too_short", shown |-> <<L, L>>]

Validate(s, exists, outcome, fps, frame_count) ==
    /\ pc[s] = "validate"
    /\ LET info == get_video_info(outcome, fps, frame_count)
           L == clip_duration_input[s]
       IN  IF ~exists THEN Return(s, Msg("file_missing")) /\ UNCHANGED duration
           ELSE IF info = NoneValue
                THEN Return(s, Msg("probe_failed")) /\ UNCHANGED duration
           ELSE /\ duration' = [duration EXCEPT ![s] = InfoDuration(info)]
                /\ IF InvalidDuration(InfoDuration(info))
                   THEN Return(s, Msg("invalid_video"))
                   ELSE IF TooShort(InfoDuration(info), L)
                        THEN Return(s, TooShortMessage(L, InfoDuration(info)))
                   ELSE /\ pc' = [pc EXCEPT ![s] = "plan"]
                        /\ UNCHANGED result
    /\ UNCHANGED <<FFMPEG_EXECUTABLE_PATH, ffmpeg_installed, clock, dirs, files, procLog,
                   video_path, clip_duration_input, total_potential_clips,
                   progressLog, cut_info, actual_saved_clips_count,
                   current_output_dir, ffmpeg_cmd_name, i>>


(***************************************************************************)
(* Lines 223-232: the number of candidate start points, progress(0), the   *)
(* empty accumulators and the timestamped directory.  makedirs can raise   *)
(* (OSError), which the outer handler turns into the "cut failed" text.    *)
(***************************************************************************)
TotalPotentialClips(D) == DFloor(D)

Plan(s, mkdirOk) ==
    /\ pc[s] = "plan"
    /\ LET timestamp_folder == Strftime(clock)
           dir == <<CLIP_VIDEO_BASE_DIR, timestamp_folder>>
       IN  /\ total_potential_clips' =
                 [total_potential_clips EXCEPT ![s] = TotalPotentialClips(duration[s])]
           /\ progressLog' = [progressLog EXCEPT ![s] = Append(@, <<0, 1>>)]
           /\ cut_info' = [cut_info EXCEPT ![s] = <<>>]
           /\ actual_saved_clips_count' = [actual_saved_clips_count EXCEPT ![s] = 0]
           /\ current_output_dir' = [current_output_dir EXCEPT ![s] = dir]
           /\ IF mkdirOk
              THEN /\ dirs' = IF \E d \in dirs : d.name = dir THEN dirs
                              ELSE dirs \cup {[name |-> dir, creator |-> s]}
                   /\ pc' = [pc EXCEPT ![s] = "tool"]
                   /\ UNCHANGED result
              ELSE /\ Return(s, Msg("cut_failed"))
                   /\ UNCHANGED dirs
    /\ UNCHANGED <<FFMPEG_EXECUTABLE_PATH, ffmpeg_installed, clock, files, procLog, video_path,
                   clip_duration_input, duration, ffmpeg_cmd_name, i>>

\* variant: the configured path is used without the existence check
ResolveToolUnchecked(s) ==
    /\ pc[s] = "tool"
    /\ ffmpeg_cmd_name' = [ffmpeg_cmd_name EXCEPT
          ![s] = IF FFMPEG_EXECUTABLE_PATH # NonePath
                 THEN <<FFMPEG_EXECUTABLE_PATH>> ELSE <<"ffmpeg">>]
    /\ i' = [i EXCEPT ![s] = 0]
    /\ pc' = [pc EXCEPT ![s] = "loop"]
    /\ UNCHANGED <<FFMPEG_EXECUTABLE_PATH, ffmpeg_installed, clock, dirs,
                   files, procLog, video_path, clip_duration_input, duration,
                   total_potential_clips, progressLog, cut_info,
                   actual_saved_clips_count, current_output_dir, result>>

(***************************************************************************)
(* Lines 235-239: the command name; a configured path must exist.          *)
(***************************************************************************)
ResolveTool(s) ==
    /\ pc[s] = "tool"
    /\ IF FFMPEG_EXECUTABLE_PATH # NonePath
       THEN IF ~ffmpeg_installed
            THEN /\ Return(s, [kind |-> "ffmpeg_path_missing",
                               path |-> FFMPEG_EXECUTABLE_PATH])
                 /\ UNCHANGED <<ffmpeg_cmd_name, i>>
            ELSE /\ ffmpeg_cmd_name' =
                        [ffmpeg_cmd_name EXCEPT ![s] = <<FFMPEG_EXECUTABLE_PATH>>]
                 /\ i' = [i EXCEPT ![s] = 0]
                 /\ pc' = [pc EXCEPT ![s] = "loop"]
                 /\ UNCHANGED result
       ELSE /\ ffmpeg_cmd_name' = [ffmpeg_cmd_name EXCEPT ![s] = <<"ffmpeg">>]
            /\ i' = [i EXCEPT ![s] = 0]
            /\ pc' = [pc EXCEPT ![s] = "loop"]
            /\ UNCHANGED result
    /\ UNCHANGED <<FFMPEG_EXECUTABLE_PATH, ffmpeg_installed, clock, dirs, files, procLog,
                   video_path, clip_duration_input, duration,
                   total_potential_clips, progressLog, cut_info,
                   actual_saved_clips_count, current_output_dir>>

\* variant: the loop advances by two
NextIndexSkipping(k) == k + 2

\* for i in range(total_potential_clips): the index after k
NextIndex(k) == k + 1

(***************************************************************************)
(* Lines 242-252: a window shorter than the requested length is skipped.   *)
(***************************************************************************)
LoopSkip(s) ==
    /\ pc[s] = "loop"
    /\ i[s] < total_potential_clips[s]
    /\ Skipped(i[s], clip_duration_input[s], duration[s])
    /\ i' = [i EXCEPT ![s] = NextIndex(i[s])]
    /\ UNCHANGED <<FFMPEG_EXECUTABLE_PATH, ffmpeg_installed, clock, dirs, files, procLog, pc,
                   video_path, clip_duration_input, duration,
                   total_potential_clips, progressLog, cut_info,
                   actual_saved_clips_count, current_output_dir,
                   ffmpeg_cmd_name, result>>

\* variant: the fraction counts the windows before this one
ProgressFractionBefore(k, total) == <<k, total>>

\* line 286: (i + 1) / total_potential_clips, kept as numerator and denominator
ProgressFraction(k, total) == <<k + 1, total>>

\* variant: FileNotFoundError handled like any other exception of one window
LoopLaunchContinuing(s) ==
    /\ pc[s] = "loop"
    /\ i[s] < total_potential_clips[s]
    /\ ~DLess(DSub(DMin(DAdd(Dbl(i[s]), clip_duration_input[s]), duration[s]),
                   Dbl(i[s])), clip_duration_input[s])
    /\ progressLog' = [progressLog EXCEPT
                          ![s] = Append(@, <<i[s] + 1, total_potential_clips[s]>>)]
    /\ IF ffmpeg_installed
       THEN /\ procLog' = Append(procLog,
                 [ev |-> "launch", s |-> s, index |-> i[s],
                  cmd |-> ffmpeg_cmd_name[s], ss |-> Dbl(i[s]),
                  t |-> DSub(DMin(DAdd(Dbl(i[s]), clip_duration_input[s]),
                                  duration[s]), Dbl(i[s])),
                  out |-> <<current_output_dir[s], Pad3(i[s])>>])
            /\ pc' = [pc EXCEPT ![s] = "encoding"]
            /\ UNCHANGED <<cut_info, i>>
       ELSE /\ procLog' = Append(procLog,
                 [ev |-> "not_found", s |-> s, index |-> i[s]])
            /\ cut_info' = [cut_info EXCEPT ![s] = Append(@,
                 [status |-> "fail", file |-> Pad3(i[s]), start |-> Dbl(i[s]),
                  end |-> DMin(DAdd(Dbl(i[s]), clip_duration_input[s]), duration[s]),
                  error |-> <<"x">>])]
            /\ i' = [i EXCEPT ![s] = i[s] + 1]
            /\ UNCHANGED pc
    /\ UNCHANGED <<FFMPEG_EXECUTABLE_PATH, ffmpeg_installed, clock, dirs,
                   files, video_path, clip_duration_input, duration,
                   total_potential_clips, actual_saved_clips_count,
                   current_output_dir, ffmpeg_cmd_name, result>>

(***************************************************************************)
(* Lines 242-290 and 299-301: the command is built, progress is reported   *)
(* and the process is started; an executable that cannot be found ends the *)
(* whole call.                                                             *)
(***************************************************************************)
LoopLaunch(s) ==
    /\ pc[s] = "loop"
    /\ i[s] < total_potential_clips[s]
    /\ ~Skipped(i[s], clip_duration_input[s], duration[s])
    /\ progressLog' = [progressLog EXCEPT
          ![s] = Append(@, ProgressFraction(i[s], total_potential_clips[s]))]
    /\ IF ffmpeg_installed
       THEN /\ procLog' = Append(procLog,
                 [ev |-> "launch", s |-> s, index |-> i[s],
                  cmd |-> ffmpeg_cmd_name[s],
                  ss |-> start_time(i[s]),
                  t |-> actual_clip_duration(i[s], clip_duration_input[s], duration[s]),
                  out |-> output_path(current_output_dir[s], i[s])])
            /\ pc' = [pc EXCEPT ![s] = "encoding"]
            /\ UNCHANGED result
       ELSE /\ procLog' = Append(procLog,
                 [ev |-> "not_found", s |-> s, index |-> i[s]])
            /\ Return(s, Msg("tool_not_found"))
    /\ UNCHANGED <<FFMPEG_EXECUTABLE_PATH, ffmpeg_installed, clock, dirs, files, video_path,
                   clip_duration_input, duration, total_potential_clips,
                   cut_info, actual_saved_clips_count, current_output_dir,
                   ffmpeg_cmd_name, i>>

\* variant: any text on stderr counts as a failure of the window
OutcomeLineStderrFails(k, L, D, res) ==
    IF res.kind = "exit" /\ res.rc = 0 /\ res.stderr = <<>>
    THEN [status |-> "ok", file |-> Pad3(k), start |-> Dbl(k),
          end |-> DMin(DAdd(Dbl(k), L), D),
          length |-> DSub(DMin(DAdd(Dbl(k), L), D), Dbl(k))]
    ELSE [status |-> "fail", file |-> Pad3(k), start |-> Dbl(k),
          end |-> DMin(DAdd(Dbl(k), L), D),
          error |-> IF res.kind = "exit" THEN Strip(res.stderr) ELSE res.stderr]

\* variant: the exit status is not looked at (check=True left out)
OutcomeLineIgnoringStatus(k, L, D, res) ==
    [status |-> "ok", file |-> Pad3(k), start |-> Dbl(k),
     end |-> DMin(DAdd(Dbl(k), L), D),
     length |-> DSub(DMin(DAdd(Dbl(k), L), D), Dbl(k))]

\* lines 291, 298 and 304: the line appended to cut_info (the values that the
\* f-string interpolates)
OutcomeLine(k, L, D, res) ==
    IF res.kind = "exit" /\ res.rc = 0
    THEN [status |-> "ok", file |-> Pad3(k), start |-> start_time(k),
          end |-> actual_end_time(k, L, D),
          length |-> actual_clip_duration(k, L, D)]
    ELSE [status |-> "fail", file |-> Pad3(k), start |-> start_time(k),
          end |-> actual_end_time(k, L, D),
          error |-> IF res.kind = "exit" THEN Strip(res.stderr) ELSE res.stderr]

\* variant: the counter is incremented after the try block
SavedAfterAlways(count, res) == count + 1

\* line 292
SavedAfter(count, res) ==
    IF res.kind = "exit" /\ res.rc = 0 THEN count + 1 ELSE count

(***************************************************************************)
(* Lines 290-304: subprocess.run returns or raises; the outcome is         *)
(* recorded and the loop goes on.  A successful process has written its    *)
(* output file (-y overwrites).                                            *)
(***************************************************************************)
EncoderExit(s, res) ==
    /\ pc[s] = "encoding"
    /\ procLog' = Append(procLog,
          [ev |-> res.kind, s |-> s, index |-> i[s], rc |-> res.rc,
           stderr |-> res.stderr])
    /\ cut_info' = [cut_info EXCEPT
          ![s] = Append(@, OutcomeLine(i[s], clip_duration_input[s], duration[s], res))]
    /\ actual_saved_clips_count' = [actual_saved_clips_count EXCEPT
          ![s] = SavedAfter(@, res)]
    /\ files' = IF res.kind = "exit" /\ res.rc = 0
                THEN LET out == output_path(current_output_dir[s], i[s])
                     IN  {f \in files : f.path # out} \cup {[path |-> out, by |-> s]}
                ELSE files
    /\ i' = [i EXCEPT ![s] = NextIndex(i[s])]
    /\ pc' = [pc EXCEPT ![s] = "loop"]
    /\ UNCHANGED <<FFMPEG_EXECUTABLE_PATH, ffmpeg_installed, clock, dirs, video_path,
                   clip_duration_input, duration, total_potential_clips,
                   progressLog, current_output_dir, ffmpeg_cmd_name, result>>

(***************************************************************************)
(* Lines 306-324: the report.                                              *)
(***************************************************************************)
Report(s) ==
    /\ pc[s] = "loop"
    /\ i[s] >= total_potential_clips[s]
    /\ Return(s, [kind |-> "report",
                  total |-> total_potential_clips[s],
                  saved |-> actual_saved_clips_count[s],
                  dir |-> current_output_dir[s],
                  clip_length |-> clip_duration_input[s],
                  lines |-> cut_info[s]])
    /\ UNCHANGED <<FFMPEG_EXECUTABLE_PATH, ffmpeg_installed, clock, dirs, files, procLog,
                   video_path, clip_duration_input, duration,
                   total_potential_clips, progressLog, cut_info,
                   actual_saved_clips_count, current_output_dir,
                   ffmpeg_cmd_name, i>>

\* the executable is installed or removed while the application runs
ToolChange ==
    /\ ffmpeg_installed' = ~ffmpeg_installed
    /\ UNCHANGED <<FFMPEG_EXECUTABLE_PATH, clock, dirs, files, procLog, pc,
                   video_path, clip_duration_input, duration,
                   total_potential_clips, progressLog, cut_info,
                   actual_saved_clips_count, current_output_dir,
                   ffmpeg_cmd_name, i, result>>

\* the wall clock advances
Tick ==
    /\ clock < MaxClock
    /\ clock' = clock + 1
    /\ UNCHANGED <<FFMPEG_EXECUTABLE_PATH, ffmpeg_installed, dirs, files, procLog, pc,
                   video_path, clip_duration_input, duration,
                   total_potential_clips, progressLog, cut_info,
                   actual_saved_clips_count, current_output_dir,
                   ffmpeg_cmd_name, i, result>>

(***************************************************************************)
(* Spec: one request, every input.                                         *)
(***************************************************************************)
Next ==
    \/ \E path \in PathValues, L \in ClipLengths : Invoke(1, path, L)
    \/ \E exists \in BOOLEAN, outcome \in ProbeOutcomes,
          fps \in FpsValues, frame_count \in 0..MaxFrames :
          Validate(1, exists, outcome, fps, frame_count)
    \/ \E mkdirOk \in BOOLEAN : Plan(1, mkdirOk)
    \/ ResolveTool(1)
    \/ LoopSkip(1)
    \/ LoopLaunch(1)
    \/ \E res \in ProcResults : EncoderExit(1, res)
    \/ Report(1)
    \/ ToolChange

Spec == Init /\ [][Next]_vars

(***************************************************************************)
(* SpecConc: two sessions cut the same two-second video while the clock    *)
(* runs.                                                                   *)
(***************************************************************************)
ConcResults == {r \in ProcResults : r.kind = "exit" /\ r.stderr # <<>>}

NextConc ==
    \/ \E s \in Sessions : Invoke(s, "video.mp4", Dbl045)
    \/ \E s \in Sessions : Validate(s, TRUE, "ok", 1, 2)
    \/ \E s \in Sessions : Plan(s, TRUE)
    \/ \E s \in Sessions : ResolveTool(s)
    \/ \E s \in Sessions : LoopSkip(s)
    \/ \E s \in Sessions : LoopLaunch(s)
    \/ \E s \in Sessions, res \in ConcResults : EncoderExit(s, res)
    \/ \E s \in Sessions : Report(s)
    \/ Tick

SpecConc == Init /\ [][NextConc]_vars


(***************************************************************************)
(* Vocabulary of the properties                                            *)
(***************************************************************************)
EventsOf(s) ==
    LET Mine(e) == e.s = s IN SelectSeq(procLog, Mine)

\* the indices for which session s has called the encoder
AttemptedIdx(s) ==
    {procLog[k].index : k \in {n \in DOMAIN procLog :
        procLog[n].s = s /\ procLog[n].ev \in {"launch", "not_found"}}}

\* the windows of a cut that pass the length test of line 251
Eligible(s) ==
    {k \in 0..(total_potential_clips[s] - 1) :
        ~Skipped(k, clip_duration_input[s], duration[s])}

\* k + L <= D in exact arithmetic
FitsInVideo(k, L, D) == DLeq(ExactSum(Dbl(k), L), D)

Returned(s, k) == pc[s] = "returned" /\ result[s].kind = k

\* the loop of session s has been entered
InLoop(s) ==
    \/ pc[s] \in {"loop", "encoding"}
    \/ Returned(s, "report")
    \/ Returned(s, "tool_not_found")

DirCreatedFor(s) ==
    /\ current_output_dir[s] # NoneValue
    /\ \E d \in dirs : d.name = current_output_dir[s]

CountLines(lines, st) == Cardinality({k \in DOMAIN lines : lines[k].status = st})

(***************************************************************************)
(* C1: for D > 0 and 0 < L <= D the loop considers exactly floor(D)        *)
(* windows, window k starting at k, and window k is passed to the encoder  *)
(* if and only if k + L <= D.                                              *)
(***************************************************************************)
C1_WindowEncodedIffFits ==
    \A s \in Sessions :
        InLoop(s) =>
            /\ total_potential_clips[s] = DFloor(duration[s])
            /\ i[s] <= total_potential_clips[s]
            /\ \A k \in 0..(i[s] - 1) :
                  (k \in AttemptedIdx(s))
                     <=> FitsInVideo(k, clip_duration_input[s], duration[s])

\* the same statement for whole-second clip lengths, where k + L is exact
C1_WholeSecondLengths ==
    \A s \in Sessions :
        ( /\ InLoop(s)
          /\ clip_duration_input[s][2] = 0
          /\ clip_duration_input[s][1] % OneHi = 0 )
        => /\ total_potential_clips[s] = DFloor(duration[s])
           /\ \A k \in 0..(i[s] - 1) :
                 (k \in AttemptedIdx(s))
                    <=> FitsInVideo(k, clip_duration_input[s], duration[s])

(***************************************************************************)
(* C2: a video with 0 < D < L ends in the too-short error; no output       *)
(* directory is made, the encoder is never called and there is no report.  *)
(***************************************************************************)
C2_TooShortNoWork ==
    \A s \in Sessions :
        ( /\ pc[s] \notin {"idle", "validate"}
          /\ duration[s] # NoneValue
          /\ DLess(Dbl(0), duration[s])
          /\ DLess(duration[s], clip_duration_input[s]) )
        => /\ Returned(s, "too_short")
           /\ current_output_dir[s] = NoneValue
           /\ ~\E d \in dirs : d.creator = s
           /\ EventsOf(s) = <<>>
           /\ cut_info[s] = <<>>

\* Scenario B: D = 2.5, L = 3
C2_Witness ==
    \E s \in Sessions :
        /\ Returned(s, "too_short")
        /\ duration[s] = DDiv(5, 2)
        /\ clip_duration_input[s] = Dbl(3)

(***************************************************************************)
(* C3: a non-zero exit of the encoder for one window is recorded as a      *)
(* failure line with the captured stderr and does not end the cut: the     *)
(* call still returns the report, every window that passes the length test *)
(* has been encoded, and saved = encoded windows - failed windows.         *)
(***************************************************************************)
FailedEvents(s) ==
    {k \in DOMAIN EventsOf(s) :
        \/ EventsOf(s)[k].ev = "exception"
        \/ EventsOf(s)[k].ev = "exit" /\ EventsOf(s)[k].rc # 0}

FinishedEvents(s) ==
    LET Done(e) == e.s = s /\ e.ev \in {"exit", "exception"}
    IN  SelectSeq(procLog, Done)

C3_FailureNotFatal ==
    \A s \in Sessions :
        /\ Len(cut_info[s]) = Len(FinishedEvents(s))
        /\ \A k \in DOMAIN cut_info[s] :
              LET e == FinishedEvents(s)[k]
              IN  (e.ev = "exit" /\ e.rc # 0) =>
                     /\ cut_info[s][k].status = "fail"
                     /\ cut_info[s][k].file = Pad3(e.index)
                     /\ cut_info[s][k].error = Strip(e.stderr)
        /\ ( /\ pc[s] = "returned"
             /\ FailedEvents(s) # {}
             /\ ~\E k \in DOMAIN procLog :
                    procLog[k].s = s /\ procLog[k].ev = "not_found" )
           => /\ result[s].kind = "report"
              /\ AttemptedIdx(s) = Eligible(s)
              /\ result[s].lines = cut_info[s]
              /\ result[s].saved =
                    Cardinality(Eligible(s)) - Cardinality(FailedEvents(s))

\* the second of three encoded windows failed, the third was still encoded
C3_Witness ==
    \E s \in Sessions :
        /\ Returned(s, "report")
        /\ Len(result[s].lines) = 3
        /\ result[s].lines[1].status = "ok"
        /\ result[s].lines[2].status = "fail"
        /\ result[s].lines[2].error = <<"c">>
        /\ result[s].lines[3].status = "ok"
        /\ result[s].saved = 2


(***************************************************************************)
(* C4: within one cut the encoder runs once per window that passes the     *)
(* length test, in ascending index order, each run finishing before the    *)
(* next one starts; the outcome lines follow the same order, one per run.  *)
(***************************************************************************)
C4_SequentialAscending ==
    \A s \in Sessions :
        LET ev == EventsOf(s)
        IN  /\ \A k \in DOMAIN ev :
                  IF k % 2 = 1
                  THEN /\ ev[k].ev \in {"launch", "not_found"}
                       /\ ev[k].ev = "not_found" => k = Len(ev)
                       /\ k > 2 => ev[k - 2].index < ev[k].index
                  ELSE /\ ev[k].ev \in {"exit", "exception"}
                       /\ ev[k - 1].ev = "launch"
                       /\ ev[k].index = ev[k - 1].index
            /\ (pc[s] = "encoding") <=> (ev # <<>> /\ ev[Len(ev)].ev = "launch")
            /\ Len(cut_info[s]) = Len(FinishedEvents(s))
            /\ \A k \in DOMAIN cut_info[s] :
                  cut_info[s][k].file = Pad3(FinishedEvents(s)[k].index)
            /\ Returned(s, "report") =>
                  /\ AttemptedIdx(s) = Eligible(s)
                  /\ Len(ev) = 2 * Cardinality(Eligible(s))
                  /\ Len(result[s].lines) = Cardinality(Eligible(s))

\* a report after three runs of the encoder
C4_Witness ==
    \E s \in Sessions :
        /\ Returned(s, "report")
        /\ Len(EventsOf(s)) = 6
        /\ EventsOf(s)[5].index = 2

(***************************************************************************)
(* C5: when the executable is not found at window k the cut ends there:    *)
(* no later window is encoded, the tool-not-found message is returned and  *)
(* nothing of the report, not even the lines of the windows already done.  *)
(***************************************************************************)
C5_AbortedState ==
    \A s \in Sessions :
        \A k \in DOMAIN EventsOf(s) :
            EventsOf(s)[k].ev = "not_found" =>
                /\ k = Len(EventsOf(s))
                /\ pc[s] = "returned"
                /\ result[s] = Msg("tool_not_found")
                /\ i[s] = EventsOf(s)[k].index
                /\ \A j \in AttemptedIdx(s) : j <= EventsOf(s)[k].index

\* the executable disappeared after two windows had been processed
C5_Witness ==
    \E s \in Sessions :
        /\ Returned(s, "tool_not_found")
        /\ Len(cut_info[s]) = 2
        /\ i[s] < total_potential_clips[s] - 1

\* the step of a session that is about to launch the encoder for a window
\* while the executable is missing
C5_AbortStep ==
    \A s \in Sessions :
        ( /\ pc[s] = "loop"
          /\ i[s] \in Eligible(s)
          /\ ~ffmpeg_installed
          /\ <<pc[s], i[s]>> # <<pc'[s], i'[s]>> )
        => /\ pc'[s] = "returned"
           /\ result'[s] = Msg("tool_not_found")
           /\ cut_info'[s] = cut_info[s]

\* C5: an executable not found at window k aborts the cut: in every state
\* the abort is the last thing the session did, and every launch attempted
\* without the executable returns the tool-not-found message and no report.
C5_ToolNotFoundAborts == []C5_AbortedState /\ [][C5_AbortStep]_vars

(***************************************************************************)
(* C6 as stated: a configured tool path that does not exist ends the cut   *)
(* with the configuration error, with no encoder run and with no output    *)
(* subdirectory created for the request.                                   *)
(***************************************************************************)
C6_NoDirectoryOnMissingTool ==
    \A s \in Sessions :
        Returned(s, "ffmpeg_path_missing") =>
            /\ EventsOf(s) = <<>>
            /\ ~DirCreatedFor(s)

(***************************************************************************)
(* C6 amended: a configured tool path that does not exist ends the cut     *)
(* with the configuration error before any window is processed and with no *)
(* encoder run; the output subdirectory of the request has already been    *)
(* made and the request writes no file into it.                            *)
(***************************************************************************)
C6_FailedFastState ==
    \A s \in Sessions :
        /\ Returned(s, "ffmpeg_path_missing") =>
              /\ FFMPEG_EXECUTABLE_PATH # NonePath
              /\ result[s].path = FFMPEG_EXECUTABLE_PATH
              /\ EventsOf(s) = <<>>
              /\ cut_info[s] = <<>>
              /\ i[s] = 0
              /\ DirCreatedFor(s)
              /\ ~\E f \in files : f.by = s
        /\ ( pc[s] \in {"loop", "encoding"} /\ FFMPEG_EXECUTABLE_PATH # NonePath )
              => ffmpeg_cmd_name[s] = <<FFMPEG_EXECUTABLE_PATH>>

C6_Witness ==
    \E s \in Sessions :
        /\ Returned(s, "ffmpeg_path_missing")
        /\ ~ffmpeg_installed
        /\ dirs = {[name |-> current_output_dir[s], creator |-> s]}
        /\ files = {}

\* the step that checks the configured path
C6_FailFastStep ==
    \A s \in Sessions :
        ( /\ pc[s] = "tool"
          /\ pc'[s] # "tool"
          /\ FFMPEG_EXECUTABLE_PATH # NonePath
          /\ ~ffmpeg_installed )
        => /\ pc'[s] = "returned"
           /\ result'[s].kind = "ffmpeg_path_missing"
           /\ procLog' = procLog

\* C6 (amended): a configured path that does not exist makes the cut return
\* the configuration error with no encoder run; the output subdirectory has
\* been made by then and holds no file of the request.
C6_FailFastLeavesDirectory == []C6_FailedFastState /\ [][C6_FailFastStep]_vars

(***************************************************************************)
(* C7: an input error (empty path, missing file, clip length <= 0) or a    *)
(* probe error (capture not opened, duration not positive) is returned     *)
(* with no partial work: no output directory, no window planned, no        *)
(* progress call, no encoder run.                                          *)
(***************************************************************************)
InputOrProbeErrors ==
    {"select_file", "bad_clip_length", "file_missing", "probe_failed",
     "invalid_video"}

C7_ErrorsDoNoWork ==
    \A s \in Sessions :
        /\ ( pc[s] = "returned" /\ result[s].kind \in InputOrProbeErrors ) =>
              /\ current_output_dir[s] = NoneValue
              /\ ~\E d \in dirs : d.creator = s
              /\ total_potential_clips[s] = 0
              /\ progressLog[s] = <<>>
              /\ cut_info[s] = <<>>
              /\ EventsOf(s) = <<>>
        /\ ( pc[s] # "idle" /\ Falsy(video_path[s]) ) => Returned(s, "select_file")
        /\ ( /\ pc[s] # "idle"
             /\ ~Falsy(video_path[s])
             /\ clip_duration_input[s] # NoneValue
             /\ DLeq(clip_duration_input[s], Dbl(0)) )
              => Returned(s, "bad_clip_length")
        /\ ( duration[s] # NoneValue /\ DLeq(duration[s], Dbl(0)) )
              => Returned(s, "invalid_video")

\* a probe that reports fps = 0 gives duration 0
C7_Witness ==
    \E s \in Sessions :
        /\ Returned(s, "invalid_video")
        /\ duration[s] = Dbl(0)
        /\ dirs = {}

(***************************************************************************)
(* C8: saved <= attempted at every point; the report gives floor(D) as the *)
(* number attempted (skipped windows included) and, as the number saved,   *)
(* the number of windows recorded as a success.                            *)
(***************************************************************************)
C8_SavedAtMostAttempted ==
    \A s \in Sessions :
        /\ actual_saved_clips_count[s] <= total_potential_clips[s]
        /\ actual_saved_clips_count[s] = CountLines(cut_info[s], "ok")
        /\ Returned(s, "report") =>
              /\ result[s].total = DFloor(duration[s])
              /\ result[s].saved = CountLines(result[s].lines, "ok")
              /\ result[s].saved =
                    Cardinality({k \in DOMAIN EventsOf(s) :
                        EventsOf(s)[k].ev = "exit" /\ EventsOf(s)[k].rc = 0})
              /\ result[s].saved <= result[s].total

\* a report with a skipped window, a failed window and two saved ones
C8_Witness ==
    \E s \in Sessions :
        /\ Returned(s, "report")
        /\ result[s].total = 4
        /\ Len(result[s].lines) = 3
        /\ result[s].saved = 2

(***************************************************************************)
(* C9: two cut requests never share an output directory: each gets a       *)
(* directory it created itself, different from the other's.                *)
(***************************************************************************)
C9_DistinctFreshDirectories ==
    \A s, t \in Sessions :
        ( s # t /\ DirCreatedFor(s) /\ DirCreatedFor(t) ) =>
            /\ current_output_dir[s] # current_output_dir[t]
            /\ [name |-> current_output_dir[s], creator |-> s] \in dirs
            /\ \A f \in files : f.by = s => f.path[1] = current_output_dir[s]

(***************************************************************************)
(* C10: cut_video never raises: every call ends by returning a text.       *)
(***************************************************************************)
C10_NeverRaises ==
    \A s \in Sessions : pc[s] # "raised"


(***************************************************************************)
(* C11 as stated: progress is called after the encode of each processed    *)
(* window has finished, with (windows completed so far) / (attempted).     *)
(***************************************************************************)
\* the calls of progress made inside the loop
LoopProgress(s) ==
    IF progressLog[s] = <<>> THEN <<>> ELSE Tail(progressLog[s])

C11_ProgressAfterEachEncode ==
    \A s \in Sessions :
        (\A k \in DOMAIN procLog : procLog[k].ev # "not_found") =>
            /\ Len(LoopProgress(s)) = Len(FinishedEvents(s))
            /\ \A k \in DOMAIN LoopProgress(s) :
                  LoopProgress(s)[k] = <<k, total_potential_clips[s]>>

\* the launches session s has attempted, in order
AttemptSeq(s) ==
    LET Try(e) == e.s = s /\ e.ev \in {"launch", "not_found"}
    IN  SelectSeq(procLog, Try)

(***************************************************************************)
(* C11 amended: progress is called once with 0 before the loop and once    *)
(* before the encoder is started for each window that is not skipped, with *)
(* (index + 1) / floor(D); it is not called again when the encode ends and *)
(* not at all for a skipped window.                                        *)
(***************************************************************************)
C11_ProgressBeforeEachEncode ==
    \A s \in Sessions :
        /\ (progressLog[s] = <<>>) <=>
              ( \/ pc[s] \in {"idle", "validate", "plan", "raised"}
                \/ (pc[s] = "returned" /\ result[s].kind \in
                       InputOrProbeErrors \cup {"too_short"}) )
        /\ progressLog[s] # <<>> => progressLog[s][1] = <<0, 1>>
        /\ Len(LoopProgress(s)) = Len(AttemptSeq(s))
        /\ \A k \in DOMAIN LoopProgress(s) :
              LoopProgress(s)[k] =
                  <<AttemptSeq(s)[k].index + 1, total_potential_clips[s]>>
        /\ pc[s] = "encoding" =>
              /\ Len(LoopProgress(s)) = Len(FinishedEvents(s)) + 1
              /\ LoopProgress(s)[Len(LoopProgress(s))] =
                    <<i[s] + 1, total_potential_clips[s]>>

\* window 1 of three was skipped: the last call reports 3/3 with two windows
\* completed
C11_Witness ==
    \E s \in Sessions :
        /\ Returned(s, "report")
        /\ progressLog[s] = <<<<0, 1>>, <<1, 3>>, <<3, 3>>>>
        /\ Len(FinishedEvents(s)) = 2


(***************************************************************************)
(* C12 as stated: the outcome of a window is a success exactly when the    *)
(* process exits with status zero; a non-zero exit or any diagnostic text  *)
(* makes it a failure whose message is the captured diagnostic output.     *)
(***************************************************************************)
C12_FailureOnStatusOrDiagnostics ==
    \A s \in Sessions :
        \A k \in DOMAIN cut_info[s] :
            LET e == FinishedEvents(s)[k]
            IN  e.ev = "exit" =>
                   /\ (cut_info[s][k].status = "ok") <=> (e.rc = 0)
                   /\ (e.rc # 0 \/ e.stderr # <<>>) =>
                         /\ cut_info[s][k].status = "fail"
                         /\ cut_info[s][k].error = e.stderr

(***************************************************************************)
(* C12 amended: the outcome of a window is a success exactly when the      *)
(* process exits with status zero, whatever it wrote to stderr; a non-zero *)
(* exit is a failure whose message is the captured stderr with leading and *)
(* trailing whitespace removed.                                            *)
(***************************************************************************)
C12_SuccessIffZeroExit ==
    \A s \in Sessions :
        /\ Len(cut_info[s]) = Len(FinishedEvents(s))
        /\ \A k \in DOMAIN cut_info[s] :
              LET e == FinishedEvents(s)[k]
              IN  /\ (cut_info[s][k].status = "ok") <=> (e.ev = "exit" /\ e.rc = 0)
                  /\ cut_info[s][k].status \in {"ok", "fail"}
                  /\ (e.ev = "exit" /\ e.rc # 0) =>
                        cut_info[s][k].error = Strip(e.stderr)

\* a process that wrote to stderr and exited with 0 is a success; the message
\* of a failed one is its stderr without the surrounding whitespace
C12_Witness ==
    \E s \in Sessions :
        /\ Len(cut_info[s]) = 2
        /\ FinishedEvents(s)[1].rc = 0
        /\ FinishedEvents(s)[1].stderr = <<" ", "c", "\n">>
        /\ cut_info[s][1].status = "ok"
        /\ FinishedEvents(s)[2].rc = 1
        /\ FinishedEvents(s)[2].stderr = <<" ", "c", "\n">>
        /\ cut_info[s][2].status = "fail"
        /\ cut_info[s][2].error = <<"c">>


(***************************************************************************)
(* C13 as stated: the too-short error carries both the required duration L *)
(* and the actual duration D of the video.                                 *)
(***************************************************************************)
C13_MessageHasRequiredAndActual ==
    \A s \in Sessions :
        Returned(s, "too_short") =>
            /\ \E k \in DOMAIN result[s].shown :
                  result[s].shown[k] = clip_duration_input[s]
            /\ \E k \in DOMAIN result[s].shown :
                  result[s].shown[k] = duration[s]

(***************************************************************************)
(* C13 amended: the too-short error carries the requested clip length L,   *)
(* twice (as the length of the cut and as the minimum needed), and not the *)
(* duration D of the video.                                                *)
(***************************************************************************)
C13_MessageHasRequiredOnly ==
    \A s \in Sessions :
        /\ Returned(s, "too_short") =>
              /\ DLess(duration[s], clip_duration_input[s])
              /\ result[s].shown = <<clip_duration_input[s], clip_duration_input[s]>>
              /\ \A k \in DOMAIN result[s].shown : result[s].shown[k] # duration[s]
        /\ ( /\ pc[s] \notin {"idle", "validate"}
             /\ duration[s] # NoneValue
             /\ ~InvalidDuration(duration[s])
             /\ DLess(duration[s], clip_duration_input[s]) )
           => Returned(s, "too_short")

\* a one-second video asked for in three-second clips: the message shows 3, 3
C13_Witness ==
    \E s \in Sessions :
        /\ Returned(s, "too_short")
        /\ duration[s] = Dbl(1)
        /\ result[s].shown = <<Dbl(3), Dbl(3)>>


(***************************************************************************)
(* C14: within one cut every run of the encoder targets the file named     *)
(* after its own window index (three digits, zero padded) in the directory *)
(* of the cut; no two runs target the same path, none targets a skipped    *)
(* window, and a cut that ends without a failure has written exactly one   *)
(* file per window that passes the length test.                            *)
(***************************************************************************)
LaunchesOf(s) ==
    LET Started(e) == e.s = s /\ e.ev = "launch"
    IN  SelectSeq(procLog, Started)

\* the paths whose encoder run by session s ended with status zero
WrittenBy(s) ==
    {LaunchesOf(s)[k].out : k \in {n \in DOMAIN FinishedEvents(s) :
        FinishedEvents(s)[n].ev = "exit" /\ FinishedEvents(s)[n].rc = 0}}

\* the number a three-digit name spells
NameValue(name) == 100 * name[1] + 10 * name[2] + name[3]

C14_OneFilePerEncodedWindow ==
    \A s \in Sessions :
        /\ \A k \in DOMAIN LaunchesOf(s) :
              LET e == LaunchesOf(s)[k]
              IN  /\ e.out[1] = current_output_dir[s]
                  /\ Len(e.out[2]) = 3
                  /\ \A d \in DOMAIN e.out[2] : e.out[2][d] \in 0..9
                  /\ NameValue(e.out[2]) = e.index
                  /\ e.index \in Eligible(s)
                  /\ \A j \in DOMAIN LaunchesOf(s) :
                        j # k => LaunchesOf(s)[j].out # e.out
        /\ {f.path : f \in {g \in files : g.by = s}} \subseteq WrittenBy(s)
        /\ ( Returned(s, "report") /\ CountLines(result[s].lines, "fail") = 0 ) =>
              /\ Cardinality(WrittenBy(s)) = Cardinality(Eligible(s))
              /\ \A k \in Eligible(s) :
                    \E p \in WrittenBy(s) :
                        p[1] = result[s].dir /\ NameValue(p[2]) = k

\* a cut of a three-second video that wrote clip_000 and clip_002 only
C14_Witness ==
    \E s \in Sessions :
        /\ Returned(s, "report")
        /\ result[s].total = 3
        /\ CountLines(result[s].lines, "fail") = 0
        /\ {f.path[2] : f \in files} = {<<0, 0, 0>>, <<0, 0, 2>>}


(***************************************************************************)
(* C15: a cut that passes validation (D > 0, 0 < L <= D) with the tool     *)
(* available encodes window 0, encodes a contiguous prefix 0..k of the     *)
(* candidate indices, and never reports zero attempted windows.            *)
(***************************************************************************)
\* the part about the shape of the encoded set
C15_EncodedSetIsPrefix ==
    \A s \in Sessions :
        ( Returned(s, "report") /\ AttemptedIdx(s) # {} ) =>
            \E k \in 0..total_potential_clips[s] : AttemptedIdx(s) = 0..k

\* C15: the whole statement
C15_ValidatedCutEncodesPrefix ==
    \A s \in Sessions :
        Returned(s, "report") =>
            /\ result[s].total >= 1
            /\ 0 \in AttemptedIdx(s)
            /\ \E k \in 0..total_potential_clips[s] : AttemptedIdx(s) = 0..k

====
